---- MODULE Spec2Model ----
(***************************************************************************)
(* Model of elysiumparser (src/src/lib.rs): the boolean expression        *)
(* matcher, the eligibility predicates, the per-file line scan and the    *)
(* concurrent scan pipeline of run_parser.                                *)
(*                                                                         *)
(* Strings are sequences of one-character strings.  Paths are sequences   *)
(* of components, each component a string.                                *)
(***************************************************************************)
EXTENDS Integers, Sequences, FiniteSets, TLC

(***************************************************************************)
(* Bounds of the model.                                                    *)
(***************************************************************************)
\* largest number of directory entries of a run
MaxFiles == 3
\* largest worker count a configuration names; also the host's CPU count
MaxWorkers == 2
\* largest number of runs of run_parser in a row
MaxRuns == 2

(***************************************************************************)
(* String helpers (str::to_lowercase, str::contains, str::starts_with).    *)
(***************************************************************************)
LowerOf(c) ==
    CASE c = "A" -> "a" [] c = "B" -> "b" [] c = "C" -> "c" [] c = "D" -> "d"
      [] c = "E" -> "e" [] c = "F" -> "f" [] c = "G" -> "g" [] c = "H" -> "h"
      [] c = "I" -> "i" [] c = "J" -> "j" [] c = "K" -> "k" [] c = "L" -> "l"
      [] c = "M" -> "m" [] c = "N" -> "n" [] c = "O" -> "o" [] c = "P" -> "p"
      [] c = "Q" -> "q" [] c = "R" -> "r" [] c = "S" -> "s" [] c = "T" -> "t"
      [] c = "U" -> "u" [] c = "V" -> "v" [] c = "W" -> "w" [] c = "X" -> "x"
      [] c = "Y" -> "y" [] c = "Z" -> "z"
      [] OTHER -> c

to_lowercase(s) == [k \in 1..Len(s) |-> LowerOf(s[k])]

\* s[a..b] with an empty result when a > b
Slice(s, a, b) == [k \in 1..(b - a + 1) |-> s[a + k - 1]]

starts_with(s, p) ==
    /\ Len(p) <= Len(s)
    /\ Slice(s, 1, Len(p)) = p

\* str::contains: the empty pattern is contained in every string
contains(s, p) ==
    \E k \in 0..(Len(s) - Len(p)) : Slice(s, k + 1, k + Len(p)) = p

(***************************************************************************)
(* BooleanExpression (lib.rs:15-19) and SearchTerm (lib.rs:9-13).          *)
(* And(terms) is [tag |-> "And", terms |-> <<...>>],                       *)
(* Or(exprs)  is [tag |-> "Or",  exprs |-> <<...>>].                       *)
(* An Option is None or Some(v).                                           *)
(***************************************************************************)
None == [some |-> FALSE]
Some(v) == [some |-> TRUE, val |-> v]

And(terms) == [tag |-> "And", terms |-> terms]
Or(exprs) == [tag |-> "Or", exprs |-> exprs]

\* matches whose And arm asks for any term instead of all
RECURSIVE matches_any(_, _)
matches_any(expr, text) ==
    IF expr.tag = "And"
    THEN \E k \in 1..Len(expr.terms) : contains(text, expr.terms[k])
    ELSE \E k \in 1..Len(expr.exprs) : matches_any(expr.exprs[k], text)

RECURSIVE matches(_, _)
matches(expr, text) ==
    IF expr.tag = "And"
    THEN \A k \in 1..Len(expr.terms) : contains(text, expr.terms[k])
    ELSE \E k \in 1..Len(expr.exprs) : matches(expr.exprs[k], text)

SearchTerm(keyword, additional_expression) ==
    [keyword |-> keyword, additional_expression |-> additional_expression]

\* the closure without its test of the additional expression
term_matches_keyword_only(term, lowercase_line, line_filter) ==
    IF ~contains(lowercase_line, line_filter) THEN FALSE
    ELSE IF term.keyword # <<>> /\ ~contains(lowercase_line, term.keyword) THEN FALSE
    ELSE TRUE

\* the closure of search_terms.iter().any(..) in process_reader
term_matches(term, lowercase_line, line_filter) ==
    IF ~contains(lowercase_line, line_filter) THEN FALSE
    ELSE IF term.keyword # <<>> /\ ~contains(lowercase_line, term.keyword) THEN FALSE
    ELSE IF term.additional_expression.some
         THEN matches(term.additional_expression.val, lowercase_line)
         ELSE TRUE

is_match(line, search_terms, line_filter) ==
    LET lowercase_line == to_lowercase(line)
    IN  \E t \in 1..Len(search_terms) :
            term_matches(search_terms[t], lowercase_line, line_filter)

\* process_reader (lib.rs:221-265) on a reader whose lines all decode and an
\* output that takes every write: the tally and the lines written, in order
RECURSIVE process_reader(_, _, _)
process_reader(lines, search_terms, line_filter) ==
    IF lines = <<>> THEN [file_match_count |-> 0, written |-> <<>>]
    ELSE LET rest == process_reader(Tail(lines), search_terms, line_filter)
         IN  IF is_match(Head(lines), search_terms, line_filter)
             THEN [file_match_count |-> rest.file_match_count + 1,
                   written |-> <<Head(lines)>> \o rest.written]
             ELSE rest

(***************************************************************************)
(* BooleanExpression::parse (lib.rs:22-58) and the str methods it calls.   *)
(***************************************************************************)
\* a strip of one leading c only
trim_start_once(s, c) ==
    IF s # <<>> /\ Head(s) = c THEN Tail(s) ELSE s

\* str::trim_start_matches(c): drops every leading c
RECURSIVE trim_start_matches(_, _)
trim_start_matches(s, c) ==
    IF s # <<>> /\ Head(s) = c THEN trim_start_matches(Tail(s), c) ELSE s

\* str::trim_end_matches(c): drops every trailing c
RECURSIVE trim_end_matches(_, _)
trim_end_matches(s, c) ==
    IF s # <<>> /\ s[Len(s)] = c
    THEN trim_end_matches(SubSeq(s, 1, Len(s) - 1), c)
    ELSE s

\* str::trim, over texts whose only whitespace is the space
trim(s) == trim_end_matches(trim_start_matches(s, " "), " ")

\* the start of the first occurrence of p in s, 0 when there is none
find(s, p) ==
    LET ks == {k \in 1..(Len(s) - Len(p) + 1) : Slice(s, k, k + Len(p) - 1) = p}
    IN  IF ks = {} THEN 0 ELSE CHOOSE k \in ks : \A j \in ks : k <= j

\* str::split(p) for a non-empty p, collected
RECURSIVE split(_, _)
split(s, p) ==
    LET k == find(s, p)
    IN  IF k = 0 THEN <<s>>
        ELSE <<Slice(s, 1, k - 1)>> \o split(Slice(s, k + Len(p), Len(s)), p)

\* the And arm without to_lowercase
parse_and_keep_case(expr) ==
    LET clean_expr == trim(trim_end_matches(trim_start_matches(expr, "("), ")"))
    IN  IF contains(clean_expr, <<" ", "&", " ">>)
        THEN LET parts == split(clean_expr, <<" ", "&", " ">>)
             IN  Some(And([k \in 1..Len(parts) |-> trim(parts[k])]))
        ELSE Some(And(<<clean_expr>>))

\* lib.rs:45-57: the text as a conjunction
parse_and(expr) ==
    LET clean_expr == trim(trim_end_matches(trim_start_matches(expr, "("), ")"))
    IN  IF contains(clean_expr, <<" ", "&", " ">>)
        THEN LET parts == split(clean_expr, <<" ", "&", " ">>)
             IN  Some(And([k \in 1..Len(parts) |-> to_lowercase(trim(parts[k]))]))
        ELSE Some(And(<<to_lowercase(clean_expr)>>))

\* parse that splits at the first "|" only and parses the rest as a whole
RECURSIVE parse_nested(_)
parse_nested(expr) ==
    IF expr = <<>> THEN None
    ELSE IF contains(expr, <<"|">>)
    THEN LET k == find(expr, <<"|">>)
             left == trim(Slice(expr, 1, k - 1))
             clean_left == trim(trim_end_matches(trim_start_matches(left, "("), ")"))
             parsed == << IF clean_left = <<>> THEN None ELSE parse_and(clean_left),
                          parse_nested(trim(Slice(expr, k + 1, Len(expr)))) >>
             kept == SelectSeq(parsed, LAMBDA o : o.some)
             or_expressions == [j \in 1..Len(kept) |-> kept[j].val]
         IN  IF or_expressions # <<>>
             THEN Some(Or(or_expressions))
             ELSE parse_and(expr)
    ELSE parse_and(expr)

RECURSIVE parse(_)
parse(expr) ==
    IF expr = <<>> THEN None
    ELSE IF contains(expr, <<"|">>)
    THEN LET raw == split(expr, <<"|">>)
             or_parts == [k \in 1..Len(raw) |-> trim(raw[k])]
             clean_part(k) ==
                 trim(trim_end_matches(trim_start_matches(or_parts[k], "("), ")"))
             parsed == [k \in 1..Len(or_parts) |-> parse(clean_part(k))]
             kept == SelectSeq(parsed, LAMBDA o : o.some)
             or_expressions == [k \in 1..Len(kept) |-> kept[k].val]
         IN  IF or_expressions # <<>>
             THEN Some(Or(or_expressions))
             ELSE parse_and(expr)
    ELSE parse_and(expr)

(***************************************************************************)
(* Paths.                                                                  *)
(***************************************************************************)
\* Path::file_name of a non-empty path
file_name(path) == path[Len(path)]

\* position of the last '.' of a name, 0 when there is none
LastDot(name) ==
    LET ds == {k \in 1..Len(name) : name[k] = "."}
    IN  IF ds = {} THEN 0 ELSE CHOOSE k \in ds : \A j \in ds : j <= k

\* Path::extension: None without a dot, or when the only dot leads the name
extension(path) ==
    LET name == file_name(path)
        d == LastDot(name)
    IN  IF d <= 1 THEN None ELSE Some(Slice(name, d + 1, Len(name)))

RECURSIVE JoinComponents(_)
JoinComponents(path) ==
    IF Len(path) = 0 THEN <<>>
    ELSE IF Len(path) = 1 THEN path[1]
    ELSE path[1] \o <<"/">> \o JoinComponents(Tail(path))

\* Path::to_string_lossy
to_string_lossy(path) == JoinComponents(path)

\* Path equality compares components: "." is dropped unless it leads the path
Components(path) ==
    LET keep == {k \in 1..Len(path) : k = 1 \/ path[k] # <<".">>}
        nth(n) == CHOOSE k \in keep : Cardinality({j \in keep : j <= k}) = n
    IN  [n \in 1..Cardinality(keep) |-> path[nth(n)]]

path_eq(p, q) == Components(p) = Components(q)

\* the directory a path names, resolved against the working directory
Resolve(path) == SelectSeq(path, LAMBDA c : c # <<".">>)

(***************************************************************************)
(* Files on disk.  A file has a name, a kind, a permission to open it, an  *)
(* encoding and its text: a sequence of items, each a line of valid text   *)
(* or a run of bytes that does not decode (bad).  A matched line whose     *)
(* append to the output fails carries wfail.  The file ends cleanly        *)
(* ("eof") or in a read error that every further read repeats ("stuck").   *)
(***************************************************************************)
Line(text) == [ok |-> TRUE, line |-> text, wfail |-> FALSE]
LineWriteFails(text) == [ok |-> TRUE, line |-> text, wfail |-> TRUE]
Bad == [ok |-> FALSE, line |-> <<>>, wfail |-> FALSE]

DiskFile(name, kind, perm, enc, items, end) ==
    [name |-> name, kind |-> kind, perm |-> perm, enc |-> enc,
     items |-> items, end |-> end]

TextA == << Line(<<"E", "r">>), Line(<<"o", "k">>), Line(<<"r", "a">>) >>

Catalog ==
    << DiskFile(<<"a", ".", "l", "o", "g">>, "file", TRUE, "plain", TextA, "eof"),
       DiskFile(<<"a", ".", "g", "z">>, "file", TRUE, "gz", TextA, "eof"),
       DiskFile(<<"b", ".", "l", "o", "g">>, "file", FALSE, "plain",
                << Line(<<"e", "r">>) >>, "eof"),
       DiskFile(<<"b", ".", "g", "z">>, "file", FALSE, "gz",
                << Line(<<"e", "r">>) >>, "eof"),
       DiskFile(<<"c", ".", "g", "z">>, "file", TRUE, "gz",
                << Line(<<"e", "r">>), Bad >>, "eof"),
       DiskFile(<<"d", ".", "g", "z">>, "file", TRUE, "gz",
                << Line(<<"e", "r">>) >>, "stuck"),
       DiskFile(<<"e", ".", "l", "o", "g">>, "file", TRUE, "plain",
                << Bad, LineWriteFails(<<"E", "R">>), Line(<<"r", "e", "r">>) >>, "eof"),
       DiskFile(<<"D", "e", "b", "u", "g", ".", "l", "o", "g">>, "file", TRUE, "plain",
                << Line(<<"e", "r">>) >>, "eof") >>

CatalogIds == 1..Len(Catalog)

\* files and a directory that differ from those of the catalog by their names
NamedFiles ==
    << DiskFile(<<"d", "e", "b", "u", "g", ".", "g", "z">>, "file", TRUE, "gz",
                << Line(<<"e", "r">>) >>, "eof"),
       DiskFile(<<"D", "E", "b", "u", "G", "a", ".", "l", "o", "g">>, "file", TRUE,
                "plain", << Line(<<"e", "r">>) >>, "eof"),
       DiskFile(<<"A", "p", "p", ".", "l", "o", "g">>, "file", TRUE, "plain",
                << Line(<<"e", "r">>) >>, "eof"),
       DiskFile(<<"a", "p", "p", ".", "g", "z">>, "file", TRUE, "gz",
                << Line(<<"e", "r">>) >>, "eof"),
       DiskFile(<<"a", ".", "l", "o", "g", "s">>, "file", TRUE, "plain",
                << Line(<<"e", "r">>) >>, "eof"),
       DiskFile(<<"a", "d", ".", "l", "o", "g">>, "dir", TRUE, "plain", <<>>, "eof") >>

AllFiles == Catalog \o NamedFiles

\* the entry the run creates for its output file
OutputEntry(output_log) ==
    DiskFile(file_name(output_log), "file", TRUE, "plain", <<>>, "eof")

is_file(e) == e.kind = "file"

(***************************************************************************)
(* Eligibility predicates (lib.rs:124-181).  e is the file the path names. *)
(***************************************************************************)
is_valid_log_file(e, path, filename_filter, output_log) ==
    IF ~is_file(e) THEN FALSE
    ELSE IF extension(path) # Some(<<"l", "o", "g">>) THEN FALSE
    ELSE IF path_eq(path, output_log) THEN FALSE
    ELSE IF starts_with(to_lowercase(file_name(path)), <<"d", "e", "b", "u", "g">>)
         THEN FALSE
    ELSE contains(to_lowercase(file_name(path)), filename_filter)

\* is_gz_file without its test of the "debug" prefix
is_gz_file_any(e, path) ==
    IF ~is_file(e) THEN FALSE
    ELSE IF extension(path) # Some(<<"g", "z">>) THEN FALSE
    ELSE TRUE

is_gz_file(e, path) ==
    IF ~is_file(e) THEN FALSE
    ELSE IF extension(path) # Some(<<"g", "z">>) THEN FALSE
    ELSE IF starts_with(to_lowercase(file_name(path)), <<"d", "e", "b", "u", "g">>)
         THEN FALSE
    ELSE TRUE

\* the test of lib.rs:297-304 on one directory entry
is_eligible(e, path, filename_filter, output_log) ==
    LET is_log == is_valid_log_file(e, path, filename_filter, output_log)
        is_gz == /\ is_gz_file(e, path)
                 /\ contains(to_lowercase(to_string_lossy(path)), filename_filter)
    IN  is_log \/ is_gz

(***************************************************************************)
(* Readers (lib.rs:184-218).  A reader is the sequence of results that     *)
(* reader.lines() yields, and how the sequence ends.                       *)
(***************************************************************************)
Reader(items, end) == [items |-> items, end |-> end]

\* BufReader over the file: bytes that are not text do not decode
plain_reader(e) ==
    IF e.enc = "plain" THEN Reader(e.items, e.end)
    ELSE Reader(<< Bad >>, e.end)

\* a gzip reader that yields no line
gz_reader_empty(e) == Reader(<<>>, "eof")

\* BufReader over GzDecoder: a file that is not gzip fails on its header
gz_reader(e) ==
    IF e.enc = "gz" THEN Reader(e.items, e.end)
    ELSE Reader(<< Bad >>, e.end)

\* the reader a worker scans, or None when File::open fails
open_reader(e, is_gz) ==
    IF ~e.perm THEN None
    ELSE IF is_gz THEN Some(gz_reader(e)) ELSE Some(plain_reader(e))

(***************************************************************************)
(* The run: run_parser (lib.rs:268-380).                                   *)
(***************************************************************************)
VARIABLES
    config,             \* ParserConfig of the run
    progress_callback,  \* TRUE when the caller passed Some(callback)
    disk,               \* catalog ids of the source directory, in read_dir order
    rpc,                \* where run_parser stands: setup, dispatch, done, err
    file_paths,         \* the worklist: ids of the eligible entries (0: the output file)
    next,               \* next worklist position stream::iter yields
    stream_done,        \* buffer_unordered has seen the end of the stream
    in_progress,        \* tasks whose JoinHandle sits in buffer_unordered
    wpc,                \* where the task of each worklist position stands
    pos,                \* position of each task's reader
    file_match_count,   \* each task's tally
    loaded,             \* the counter value a task read under the lock
    runs,               \* how many times a task began to process its file
    output_file,        \* what was written to the output file, write by write
    output_lock,        \* owner of the Mutex around the output file (0: free)
    total_match_count,  \* cumulative match counter
    total_lock,         \* owner of its Mutex
    processed_files,    \* cumulative processed-file counter
    processed_lock,     \* owner of its Mutex
    progress_mutex,     \* owner of progress_mutex
    observed,           \* the calls the progress callback received, in order
    result,             \* what run_parser returned
    fault,              \* the setup step that fails in this run, or "none"
    output_exists,      \* the output file exists on disk
    history,            \* what the earlier runs of run_parser returned
    call,               \* a call of one function alone: its name and arguments
    ret                 \* what that call returned

vars == << config, progress_callback, disk, rpc, file_paths, next, stream_done,
           in_progress, wpc, pos, file_match_count, loaded, runs, output_file,
           output_lock, total_match_count, total_lock, processed_files,
           processed_lock, progress_mutex, observed, result, fault,
           output_exists, history, call, ret >>

Tasks == 1..(MaxFiles + 1)

\* io::Result<ParserResult>, and the value before run_parser returns
NoResult == [state |-> "none", total_matches |-> 0, processed_files |-> 0]
Err == [state |-> "err", total_matches |-> 0, processed_files |-> 0]
Ok(total_matches, processed) ==
    [state |-> "ok", total_matches |-> total_matches, processed_files |-> processed]

\* num_cpus::get() of the host
num_cpus_get == MaxWorkers

ParserConfig(log_folder, output_log, filename_filter, line_filter, search_terms, workers) ==
    [log_folder |-> log_folder, output_log |-> output_log,
     filename_filter |-> filename_filter, line_filter |-> line_filter,
     search_terms |-> search_terms, workers |-> workers]

\* ascending sequences of at most MaxFiles catalog ids
RECURSIVE SeqOfSet(_)
SeqOfSet(S) ==
    IF S = {} THEN <<>>
    ELSE LET m == CHOOSE x \in S : \A y \in S : x <= y
         IN  <<m>> \o SeqOfSet(S \ {m})

Directories ==
    {SeqOfSet(S) : S \in {T \in SUBSET CatalogIds : Cardinality(T) <= MaxFiles}}

WorkerChoices == {None} \cup {Some(n) : n \in 0..MaxWorkers}

Configs ==
    {ParserConfig(<< <<"l", "o", "g", "s">> >>,
                  << <<"l", "o", "g", "s">>, <<"o", "u", "t", ".", "l", "o", "g">> >>,
                  <<>>, <<"R">>,
                  << SearchTerm(<<"e", "r">>, None),
                     SearchTerm(<<>>, Some(And(<< <<"a">> >>))) >>,
                  w) : w \in WorkerChoices}

\* the steps of the setup that can fail (lib.rs:273-311)
SetupSteps == {"remove_file", "create_dir_all", "open", "read_dir"}

\* the values before a function is called alone
NoCall == [fn |-> "none"]
NoRet == [state |-> "none"]

\* the state of a run when run_parser is entered
RunStart ==
    /\ rpc = "setup"
    /\ file_paths = <<>>
    /\ next = 1
    /\ stream_done = FALSE
    /\ in_progress = {}
    /\ wpc = [i \in Tasks |-> "none"]
    /\ pos = [i \in Tasks |-> 0]
    /\ file_match_count = [i \in Tasks |-> 0]
    /\ loaded = [i \in Tasks |-> 0]
    /\ runs = [i \in Tasks |-> 0]
    /\ output_lock = 0
    /\ total_match_count = 0
    /\ total_lock = 0
    /\ processed_files = 0
    /\ processed_lock = 0
    /\ progress_mutex = 0
    /\ observed = <<>>
    /\ result = NoResult

\* one run: a stale output exists exactly when its removal is to fail
Init ==
    /\ config \in Configs
    /\ progress_callback \in BOOLEAN
    /\ disk \in Directories
    /\ fault \in SetupSteps \cup {"none"}
    /\ output_exists = (fault = "remove_file")
    /\ output_file = <<>>
    /\ history = <<>>
    /\ call = NoCall
    /\ ret = NoRet
    /\ RunStart

\* the file a worklist id names
Entry(id) == IF id = 0 THEN OutputEntry(config.output_log) ELSE AllFiles[id]

\* DirEntry::path
entry_path(id) == config.log_folder \o << Entry(id).name >>

\* Path::parent
parent(path) == SubSeq(path, 1, Len(path) - 1)

\* what fs::read_dir lists once the output file exists
Listing ==
    IF Resolve(parent(config.output_log)) = Resolve(config.log_folder)
    THEN disk \o << 0 >>
    ELSE disk

concurrency ==
    IF config.workers.some THEN config.workers.val ELSE num_cpus_get

total_files == Len(file_paths)

\* Mutex::lock returns when no task holds the mutex
lock_free(owner) == owner = 0

\* the filters as lowercased at lib.rs:270-271
filename_filter == to_lowercase(config.filename_filter)
line_filter == to_lowercase(config.line_filter)

\* an enumeration that pushes every entry of the directory
collect_paths_all(listing) == listing

\* the entries of a listing that lib.rs:294-308 pushes to file_paths
collect_paths(listing) ==
    SelectSeq(listing,
              LAMBDA id : is_eligible(Entry(id), entry_path(id),
                                      filename_filter, config.output_log))

worker_vars == << wpc, pos, file_match_count, loaded, runs >>
shared_vars == << output_file, output_lock, total_match_count, total_lock,
                  processed_files, processed_lock, progress_mutex, observed >>
input_vars == << config, progress_callback, disk, fault >>
\* state that outlives a run or lies outside it
outer_vars == << output_exists, history, call, ret >>

(***************************************************************************)
(* Setup (lib.rs:270-311): reset the output, make the directory, open the  *)
(* output, list the directory.  Each of the four steps can fail, and a     *)
(* failure returns the error at once.                                      *)
(***************************************************************************)
\* fs::remove_file runs only when the output exists (lib.rs:274-276)
remove_fails == fault = "remove_file" /\ output_exists

\* the step at which this run's setup returns its error, or "none".
\* create_dir_all stands for a source directory that is absent and cannot
\* be created.
failed_step == IF fault = "remove_file" /\ ~output_exists THEN "none" ELSE fault

\* Setup that logs a failure and goes on to the dispatch
Setup_lenient ==
    /\ rpc = "setup"
    /\ rpc' = "dispatch"
    /\ file_paths' = collect_paths(Listing)
    /\ UNCHANGED result
    /\ IF remove_fails
       THEN UNCHANGED << output_file, output_exists >>
       ELSE /\ output_file' = <<>>
            /\ output_exists' = (failed_step \in {"none", "read_dir"})
    /\ UNCHANGED << next, stream_done, in_progress >>
    /\ UNCHANGED << input_vars, worker_vars >>
    /\ UNCHANGED << history, call, ret >>
    /\ UNCHANGED << output_lock, total_match_count, total_lock, processed_files,
                    processed_lock, progress_mutex, observed >>

\* Setup that opens the output without removing the stale file
Setup_keep ==
    /\ rpc = "setup"
    /\ IF failed_step # "none"
       THEN /\ rpc' = "err"
            /\ result' = Err
            /\ UNCHANGED file_paths
       ELSE /\ rpc' = "dispatch"
            /\ file_paths' = collect_paths(Listing)
            /\ UNCHANGED result
    /\ output_file' = output_file
    /\ output_exists' = (output_exists \/ failed_step \in {"none", "read_dir"})
    /\ UNCHANGED << next, stream_done, in_progress >>
    /\ UNCHANGED << input_vars, worker_vars >>
    /\ UNCHANGED << history, call, ret >>
    /\ UNCHANGED << output_lock, total_match_count, total_lock, processed_files,
                    processed_lock, progress_mutex, observed >>

Setup ==
    /\ rpc = "setup"
    /\ IF failed_step # "none"
       THEN /\ rpc' = "err"
            /\ result' = Err
            /\ UNCHANGED file_paths
       ELSE /\ rpc' = "dispatch"
            /\ file_paths' = collect_paths(Listing)
            /\ UNCHANGED result
    \* a stale output is removed first; the open creates an empty file
    /\ IF remove_fails
       THEN UNCHANGED << output_file, output_exists >>
       ELSE /\ output_file' = <<>>
            /\ output_exists' = (failed_step \in {"none", "read_dir"})
    /\ UNCHANGED << next, stream_done, in_progress >>
    /\ UNCHANGED << input_vars, worker_vars >>
    /\ UNCHANGED << history, call, ret >>
    /\ UNCHANGED << output_lock, total_match_count, total_lock, processed_files,
                    processed_lock, progress_mutex, observed >>

(***************************************************************************)
(* buffer_unordered(concurrency) (lib.rs:324-371).  While it holds fewer   *)
(* than concurrency handles it polls the stream: an item is mapped, which  *)
(* spawns the task; the end of the stream is remembered.                   *)
(***************************************************************************)
\* a buffer without a limit
may_poll_stream_unbounded == TRUE

may_poll_stream == Cardinality(in_progress) < concurrency

Spawn ==
    /\ rpc = "dispatch"
    /\ ~stream_done
    /\ may_poll_stream
    /\ next <= Len(file_paths)
    /\ wpc' = [wpc EXCEPT ![next] = "spawned"]
    /\ in_progress' = in_progress \cup {next}
    /\ next' = next + 1
    /\ UNCHANGED << rpc, file_paths, stream_done, result >>
    /\ UNCHANGED << pos, file_match_count, loaded, runs >>
    /\ UNCHANGED << input_vars, outer_vars, shared_vars >>

StreamEnd ==
    /\ rpc = "dispatch"
    /\ ~stream_done
    /\ may_poll_stream
    /\ next > Len(file_paths)
    /\ stream_done' = TRUE
    /\ UNCHANGED << rpc, file_paths, next, in_progress, result >>
    /\ UNCHANGED << input_vars, outer_vars, worker_vars, shared_vars >>

\* Join that does not wait for the task to finish
Join_detached(i) ==
    /\ rpc = "dispatch"
    /\ i \in in_progress
    /\ wpc[i] # "none"
    /\ in_progress' = in_progress \ {i}
    /\ UNCHANGED << rpc, file_paths, next, stream_done, result >>
    /\ UNCHANGED << input_vars, outer_vars, worker_vars, shared_vars >>

\* a finished task's JoinHandle resolves and leaves the buffer
Join(i) ==
    /\ rpc = "dispatch"
    /\ i \in in_progress
    /\ wpc[i] = "finished"
    /\ in_progress' = in_progress \ {i}
    /\ UNCHANGED << rpc, file_paths, next, stream_done, result >>
    /\ UNCHANGED << input_vars, outer_vars, worker_vars, shared_vars >>

\* the stream is over and the buffer is empty: lib.rs:373-379
Return ==
    /\ rpc = "dispatch"
    /\ stream_done
    /\ in_progress = {}
    /\ lock_free(total_lock)
    /\ lock_free(processed_lock)
    /\ result' = Ok(total_match_count, processed_files)
    /\ rpc' = "done"
    /\ UNCHANGED << file_paths, next, stream_done, in_progress >>
    /\ UNCHANGED << input_vars, outer_vars, worker_vars, shared_vars >>

(***************************************************************************)
(* The task spawned for worklist position i (lib.rs:333-367).              *)
(***************************************************************************)
\* the reader the task of position i scans (lib.rs:334-345, 190-217)
task_reader(i) ==
    LET id == file_paths[i]
    IN  open_reader(Entry(id), is_gz_file(Entry(id), entry_path(id)))

\* the item the reader of task i stands at
current_item(i) == task_reader(i).val.items[pos[i]]

\* Start that ends the task when the file does not open
Start_abort(i) ==
    /\ wpc[i] = "spawned"
    /\ runs' = [runs EXCEPT ![i] = @ + 1]
    /\ file_match_count' = [file_match_count EXCEPT ![i] = 0]
    /\ IF task_reader(i).some
       THEN /\ wpc' = [wpc EXCEPT ![i] = "read"]
            /\ pos' = [pos EXCEPT ![i] = 1]
       ELSE /\ wpc' = [wpc EXCEPT ![i] = "finished"]
            /\ UNCHANGED pos
    /\ UNCHANGED loaded
    /\ UNCHANGED << rpc, file_paths, next, stream_done, in_progress, result >>
    /\ UNCHANGED << input_vars, outer_vars, shared_vars >>

\* lib.rs:334-345 up to the first line: classify the file and open it.
\* A file that does not open counts 0, through either function.
Start(i) ==
    /\ wpc[i] = "spawned"
    /\ runs' = [runs EXCEPT ![i] = @ + 1]
    /\ file_match_count' = [file_match_count EXCEPT ![i] = 0]
    /\ IF task_reader(i).some
       THEN /\ wpc' = [wpc EXCEPT ![i] = "read"]
            /\ pos' = [pos EXCEPT ![i] = 1]
       ELSE /\ wpc' = [wpc EXCEPT ![i] = "lock_total"]
            /\ UNCHANGED pos
    /\ UNCHANGED loaded
    /\ UNCHANGED << rpc, file_paths, next, stream_done, in_progress, result >>
    /\ UNCHANGED << input_vars, outer_vars, shared_vars >>

\* ReadLine that leaves the loop at the first item that does not decode
ReadLine_abort(i) ==
    /\ wpc[i] = "read"
    /\ LET r == task_reader(i).val
       IN  IF pos[i] > Len(r.items)
           THEN IF r.end = "eof"
                THEN \* lines() returns None: the loop ends
                     /\ wpc' = [wpc EXCEPT ![i] = "lock_total"]
                     /\ UNCHANGED << pos, file_match_count >>
                ELSE \* lines() returns Some(Err) again: the loop goes on
                     UNCHANGED << wpc, pos, file_match_count >>
           ELSE LET item == r.items[pos[i]]
                IN  IF ~item.ok
                    THEN /\ wpc' = [wpc EXCEPT ![i] = "lock_total"]
                         /\ UNCHANGED << pos, file_match_count >>
                    ELSE IF is_match(item.line, config.search_terms, line_filter)
                    THEN /\ file_match_count' = [file_match_count EXCEPT ![i] = @ + 1]
                         /\ wpc' = [wpc EXCEPT ![i] = "lock_output"]
                         /\ UNCHANGED pos
                    ELSE /\ pos' = [pos EXCEPT ![i] = @ + 1]
                         /\ UNCHANGED << wpc, file_match_count >>
    /\ UNCHANGED << loaded, runs >>
    /\ UNCHANGED << rpc, file_paths, next, stream_done, in_progress, result >>
    /\ UNCHANGED << input_vars, outer_vars, shared_vars >>

\* one turn of `for line in reader.lines()` up to the lock (lib.rs:229-252)
ReadLine(i) ==
    /\ wpc[i] = "read"
    /\ LET r == task_reader(i).val
       IN  IF pos[i] > Len(r.items)
           THEN IF r.end = "eof"
                THEN \* lines() returns None: the loop ends
                     /\ wpc' = [wpc EXCEPT ![i] = "lock_total"]
                     /\ UNCHANGED << pos, file_match_count >>
                ELSE \* lines() returns Some(Err) again: the loop goes on
                     UNCHANGED << wpc, pos, file_match_count >>
           ELSE LET item == r.items[pos[i]]
                IN  IF ~item.ok
                    THEN \* Some(Err): `if let Ok(line)` skips the item
                         /\ pos' = [pos EXCEPT ![i] = @ + 1]
                         /\ UNCHANGED << wpc, file_match_count >>
                    ELSE IF is_match(item.line, config.search_terms, line_filter)
                    THEN /\ file_match_count' = [file_match_count EXCEPT ![i] = @ + 1]
                         /\ wpc' = [wpc EXCEPT ![i] = "lock_output"]
                         /\ UNCHANGED pos
                    ELSE /\ pos' = [pos EXCEPT ![i] = @ + 1]
                         /\ UNCHANGED << wpc, file_match_count >>
    /\ UNCHANGED << loaded, runs >>
    /\ UNCHANGED << rpc, file_paths, next, stream_done, in_progress, result >>
    /\ UNCHANGED << input_vars, outer_vars, shared_vars >>

\* LockOutput without the mutex
LockOutput_unguarded(i) ==
    /\ wpc[i] = "lock_output"
    /\ output_lock' = i
    /\ wpc' = [wpc EXCEPT ![i] = "write_line"]
    /\ UNCHANGED << pos, file_match_count, loaded, runs >>
    /\ UNCHANGED << output_file, total_match_count, total_lock, processed_files,
                    processed_lock, progress_mutex, observed >>
    /\ UNCHANGED << rpc, file_paths, next, stream_done, in_progress, result >>
    /\ UNCHANGED << input_vars, outer_vars, outer_vars >>

\* output_file.lock() (lib.rs:255)
LockOutput(i) ==
    /\ wpc[i] = "lock_output"
    /\ lock_free(output_lock)
    /\ output_lock' = i
    /\ wpc' = [wpc EXCEPT ![i] = "write_line"]
    /\ UNCHANGED << pos, file_match_count, loaded, runs >>
    /\ UNCHANGED << output_file, total_match_count, total_lock, processed_files,
                    processed_lock, progress_mutex, observed >>
    /\ UNCHANGED << rpc, file_paths, next, stream_done, in_progress, result >>
    /\ UNCHANGED << input_vars, outer_vars, outer_vars >>

Chunk(i, k, part) == [task |-> i, item |-> k, part |-> part]

\* WriteLine that gives the file up when the write fails
WriteLine_abort(i) ==
    /\ wpc[i] = "write_line"
    /\ IF current_item(i).wfail
       THEN /\ output_lock' = 0
            /\ wpc' = [wpc EXCEPT ![i] = "lock_total"]
            /\ UNCHANGED << output_file, pos >>
       ELSE /\ output_file' = Append(output_file, Chunk(i, pos[i], "line"))
            /\ wpc' = [wpc EXCEPT ![i] = "write_newline"]
            /\ UNCHANGED << output_lock, pos >>
    /\ UNCHANGED << file_match_count, loaded, runs >>
    /\ UNCHANGED << total_match_count, total_lock, processed_files,
                    processed_lock, progress_mutex, observed >>
    /\ UNCHANGED << rpc, file_paths, next, stream_done, in_progress, result >>
    /\ UNCHANGED << input_vars, outer_vars >>

\* writeln! writes the line, then the newline (lib.rs:256).  A write that
\* fails is logged, the guard is dropped and the loop goes on.
WriteLine(i) ==
    /\ wpc[i] = "write_line"
    /\ IF current_item(i).wfail
       THEN /\ output_lock' = 0
            /\ pos' = [pos EXCEPT ![i] = @ + 1]
            /\ wpc' = [wpc EXCEPT ![i] = "read"]
            /\ UNCHANGED output_file
       ELSE /\ output_file' = Append(output_file, Chunk(i, pos[i], "line"))
            /\ wpc' = [wpc EXCEPT ![i] = "write_newline"]
            /\ UNCHANGED << output_lock, pos >>
    /\ UNCHANGED << file_match_count, loaded, runs >>
    /\ UNCHANGED << total_match_count, total_lock, processed_files,
                    processed_lock, progress_mutex, observed >>
    /\ UNCHANGED << rpc, file_paths, next, stream_done, in_progress, result >>
    /\ UNCHANGED << input_vars, outer_vars, outer_vars >>

\* WriteNewline that starts the file over after each written line
WriteNewline_rewind(i) ==
    /\ wpc[i] = "write_newline"
    /\ output_file' = Append(output_file, Chunk(i, pos[i], "newline"))
    /\ output_lock' = 0
    /\ pos' = [pos EXCEPT ![i] = 1]
    /\ wpc' = [wpc EXCEPT ![i] = "read"]
    /\ UNCHANGED << file_match_count, loaded, runs >>
    /\ UNCHANGED << total_match_count, total_lock, processed_files,
                    processed_lock, progress_mutex, observed >>
    /\ UNCHANGED << rpc, file_paths, next, stream_done, in_progress, result >>
    /\ UNCHANGED << input_vars, outer_vars, outer_vars >>

WriteNewline(i) ==
    /\ wpc[i] = "write_newline"
    /\ output_file' = Append(output_file, Chunk(i, pos[i], "newline"))
    /\ output_lock' = 0
    /\ pos' = [pos EXCEPT ![i] = @ + 1]
    /\ wpc' = [wpc EXCEPT ![i] = "read"]
    /\ UNCHANGED << file_match_count, loaded, runs >>
    /\ UNCHANGED << total_match_count, total_lock, processed_files,
                    processed_lock, progress_mutex, observed >>
    /\ UNCHANGED << rpc, file_paths, next, stream_done, in_progress, result >>
    /\ UNCHANGED << input_vars, outer_vars, outer_vars >>

\* LockTotal without the mutex: the counter is read while another task
\* stands between its read and its write
LockTotal_unguarded(i) ==
    /\ wpc[i] = "lock_total"
    /\ total_lock' = i
    /\ loaded' = [loaded EXCEPT ![i] = total_match_count]
    /\ wpc' = [wpc EXCEPT ![i] = "store_total"]
    /\ UNCHANGED << pos, file_match_count, runs >>
    /\ UNCHANGED << output_file, output_lock, total_match_count, processed_files,
                    processed_lock, progress_mutex, observed >>
    /\ UNCHANGED << rpc, file_paths, next, stream_done, in_progress, result >>
    /\ UNCHANGED << input_vars, outer_vars, outer_vars >>

\* total_match_count.lock() and the read of `*count += ..` (lib.rs:349-350)
LockTotal(i) ==
    /\ wpc[i] = "lock_total"
    /\ lock_free(total_lock)
    /\ total_lock' = i
    /\ loaded' = [loaded EXCEPT ![i] = total_match_count]
    /\ wpc' = [wpc EXCEPT ![i] = "store_total"]
    /\ UNCHANGED << pos, file_match_count, runs >>
    /\ UNCHANGED << output_file, output_lock, total_match_count, processed_files,
                    processed_lock, progress_mutex, observed >>
    /\ UNCHANGED << rpc, file_paths, next, stream_done, in_progress, result >>
    /\ UNCHANGED << input_vars, outer_vars, outer_vars >>

\* StoreTotal that drops the guard without adding the tally
StoreTotal_skipped(i) ==
    /\ wpc[i] = "store_total"
    /\ total_lock' = 0
    /\ wpc' = [wpc EXCEPT ![i] = "lock_progress"]
    /\ UNCHANGED << pos, file_match_count, loaded, runs >>
    /\ UNCHANGED << output_file, output_lock, total_match_count, processed_files,
                    processed_lock, progress_mutex, observed >>
    /\ UNCHANGED << rpc, file_paths, next, stream_done, in_progress, result >>
    /\ UNCHANGED << input_vars, outer_vars >>

\* the write of `*count += file_match_count` and the drop of the guard
StoreTotal(i) ==
    /\ wpc[i] = "store_total"
    /\ total_match_count' = loaded[i] + file_match_count[i]
    /\ total_lock' = 0
    /\ wpc' = [wpc EXCEPT ![i] = "lock_progress"]
    /\ UNCHANGED << pos, file_match_count, loaded, runs >>
    /\ UNCHANGED << output_file, output_lock, processed_files,
                    processed_lock, progress_mutex, observed >>
    /\ UNCHANGED << rpc, file_paths, next, stream_done, in_progress, result >>
    /\ UNCHANGED << input_vars, outer_vars, outer_vars >>

\* progress_mutex.lock() (lib.rs:355)
LockProgress(i) ==
    /\ wpc[i] = "lock_progress"
    /\ lock_free(progress_mutex)
    /\ progress_mutex' = i
    /\ wpc' = [wpc EXCEPT ![i] = "lock_processed"]
    /\ UNCHANGED << pos, file_match_count, loaded, runs >>
    /\ UNCHANGED << output_file, output_lock, total_match_count, total_lock,
                    processed_files, processed_lock, observed >>
    /\ UNCHANGED << rpc, file_paths, next, stream_done, in_progress, result >>
    /\ UNCHANGED << input_vars, outer_vars, outer_vars >>

\* IncrementProcessed with both guards dropped before the callback runs
IncrementProcessed_released(i) ==
    /\ wpc[i] = "lock_processed"
    /\ lock_free(processed_lock)
    /\ processed_lock' = 0
    /\ progress_mutex' = 0
    /\ processed_files' = processed_files + 1
    /\ wpc' = [wpc EXCEPT ![i] = "callback"]
    /\ UNCHANGED << pos, file_match_count, loaded, runs >>
    /\ UNCHANGED << output_file, output_lock, total_match_count, total_lock,
                    observed >>
    /\ UNCHANGED << rpc, file_paths, next, stream_done, in_progress, result >>
    /\ UNCHANGED << input_vars, outer_vars, outer_vars >>

\* processed_files.lock() and `*processed += 1` (lib.rs:356-357)
IncrementProcessed(i) ==
    /\ wpc[i] = "lock_processed"
    /\ lock_free(processed_lock)
    /\ processed_lock' = i
    /\ processed_files' = processed_files + 1
    /\ wpc' = [wpc EXCEPT ![i] = "callback"]
    /\ UNCHANGED << pos, file_match_count, loaded, runs >>
    /\ UNCHANGED << output_file, output_lock, total_match_count, total_lock,
                    progress_mutex, observed >>
    /\ UNCHANGED << rpc, file_paths, next, stream_done, in_progress, result >>
    /\ UNCHANGED << input_vars, outer_vars, outer_vars >>

\* one call callback(processed, total), and the task that made it
Progress(processed, total, i) == [processed |-> processed, total |-> total, task |-> i]

\* the callback, when there is one, and the drop of both guards (lib.rs:359-366)
Callback(i) ==
    /\ wpc[i] = "callback"
    /\ total_files # 0
    /\ observed' = IF progress_callback
                   THEN Append(observed, Progress(processed_files, total_files, i))
                   ELSE observed
    /\ processed_lock' = 0
    /\ progress_mutex' = 0
    /\ wpc' = [wpc EXCEPT ![i] = "finished"]
    /\ UNCHANGED << pos, file_match_count, loaded, runs >>
    /\ UNCHANGED << output_file, output_lock, total_match_count, total_lock,
                    processed_files >>
    /\ UNCHANGED << rpc, file_paths, next, stream_done, in_progress, result >>
    /\ UNCHANGED << input_vars, outer_vars, outer_vars >>

Worker(i) ==
    \/ Start(i)
    \/ ReadLine(i)
    \/ LockOutput(i)
    \/ WriteLine(i)
    \/ WriteNewline(i)
    \/ LockTotal(i)
    \/ StoreTotal(i)
    \/ LockProgress(i)
    \/ IncrementProcessed(i)
    \/ Callback(i)

Next ==
    \/ Setup
    \/ Spawn
    \/ StreamEnd
    \/ \E i \in Tasks : Join(i)
    \/ Return
    \/ \E i \in Tasks : Worker(i)

Spec == Init /\ [][Next]_vars

(***************************************************************************)
(* Runs in a row: run_parser is called again with the same configuration   *)
(* on the same files.  What the earlier run wrote stays on disk, marked    *)
(* as written by task 0, and any setup step of the new run may fail.       *)
(***************************************************************************)
Stale(chunk) == [chunk EXCEPT !.task = 0]

Rerun ==
    /\ rpc \in {"done", "err"}
    /\ Len(history) + 1 < MaxRuns
    /\ history' = Append(history, result)
    /\ fault' \in SetupSteps \cup {"none"}
    /\ output_file' = [c \in 1..Len(output_file) |-> Stale(output_file[c])]
    /\ rpc' = "setup"
    /\ file_paths' = <<>>
    /\ next' = 1
    /\ stream_done' = FALSE
    /\ in_progress' = {}
    /\ wpc' = [i \in Tasks |-> "none"]
    /\ pos' = [i \in Tasks |-> 0]
    /\ file_match_count' = [i \in Tasks |-> 0]
    /\ loaded' = [i \in Tasks |-> 0]
    /\ runs' = [i \in Tasks |-> 0]
    /\ output_lock' = 0
    /\ total_match_count' = 0
    /\ total_lock' = 0
    /\ processed_files' = 0
    /\ processed_lock' = 0
    /\ progress_mutex' = 0
    /\ observed' = <<>>
    /\ result' = NoResult
    /\ UNCHANGED << config, progress_callback, disk, output_exists, call, ret >>

\* the first run finds no output file
RunsInit ==
    /\ config \in Configs
    /\ progress_callback = TRUE
    /\ disk \in {d \in Directories : Len(d) < MaxFiles}
    /\ fault \in SetupSteps \cup {"none"}
    /\ output_exists = FALSE
    /\ output_file = <<>>
    /\ history = <<>>
    /\ call = NoCall
    /\ ret = NoRet
    /\ RunStart

RunsNext == Next \/ Rerun

RunsSpec == RunsInit /\ [][RunsNext]_vars

\* the runtime runs every spawned task and polls the awaited stream
FairSpec ==
    /\ Spec
    /\ WF_vars(Setup)
    /\ WF_vars(Spawn)
    /\ WF_vars(StreamEnd)
    /\ WF_vars(Return)
    /\ \A i \in Tasks : WF_vars(Join(i))
    /\ \A i \in Tasks : WF_vars(Worker(i))

(***************************************************************************)
(* The enumeration alone (lib.rs:290-311), for the ways the configuration  *)
(* can spell the source directory and the output path.                     *)
(***************************************************************************)
logs == <<"l", "o", "g", "s">>
dot == <<".">>
out_log == <<"o", "u", "t", ".", "l", "o", "g">>
out_gz == <<"o", "u", "t", ".", "g", "z">>

FolderSpellings == { <<logs>>, <<dot, logs>> }

OutputSpellings ==
    { <<logs, out_log>>, <<dot, logs, out_log>>, <<logs, dot, out_log>>,
      <<logs, out_gz>>, <<out_log>> }

FilenameFilters ==
    { <<>>, <<"O", "u", "t">>, <<"a">>, <<"A", "p">>, <<"d", "e", "b", "u", "g">> }

\* a source directory that holds at most one file
EnumDirectories == { <<>> } \cup { <<id>> : id \in 1..Len(AllFiles) }

EnumConfigs ==
    {ParserConfig(f, o, ff, <<"R">>, << SearchTerm(<<"e", "r">>, None) >>, Some(1)) :
        f \in FolderSpellings, o \in OutputSpellings, ff \in FilenameFilters}

EnumInit ==
    /\ config \in EnumConfigs
    /\ progress_callback = FALSE
    /\ disk \in EnumDirectories
    /\ fault \in SetupSteps \cup {"none"}
    /\ output_exists = (fault = "remove_file")
    /\ output_file = <<>>
    /\ history = <<>>
    /\ call = NoCall
    /\ ret = NoRet
    /\ RunStart

EnumNext == Setup

EnumSpec == EnumInit /\ [][EnumNext]_vars

(***************************************************************************)
(* The public functions called alone: process_reader on a reader of a few  *)
(* lines, BooleanExpression::matches and BooleanExpression::parse.  call   *)
(* holds the function and its arguments, ret what it returned.             *)
(***************************************************************************)
MaxLines == 2
MaxTerms == 2

SomeLines ==
    { <<>>, <<"E", "r">>, <<"r", "a">>, <<"e", "r", "a">>, <<"b", " ", "e", "R", "a">> }

Readers == UNION {[1..n -> SomeLines] : n \in 0..MaxLines}

LineFilters == { <<>>, <<"r">>, <<"R">>, <<"x">> }

SomeExpressions ==
    { And(<< <<"a">> >>), And(<< <<"a">>, <<"b">> >>), And(<< <<"b">>, <<"a">> >>),
      And(<<>>), Or(<<>>),
      Or(<< And(<< <<"e">>, <<"a">> >>), And(<< <<"x">> >>) >>),
      Or(<< And(<< <<"x">> >>), Or(<< And(<< <<"r">> >>) >>) >>) }

TermExpressions ==
    { And(<< <<"a">> >>), Or(<< And(<< <<"e">>, <<"b">> >>), And(<< <<"x">> >>) >>) }

SomeTerms ==
    {SearchTerm(k, e) :
        k \in { <<>>, <<"e", "r">>, <<"E", "R">> },
        e \in {None} \cup {Some(x) : x \in TermExpressions}}

TermLists == UNION {[1..n -> SomeTerms] : n \in 0..MaxTerms}

Keywords == { <<"a">>, <<"B">>, <<"e", "r">>, <<"R", " ", "a">> }

\* the text "(a & b) | (c)", with pad around each keyword
Disjunction(a, b, c, pad) ==
    <<"(">> \o pad \o a \o pad \o <<" ", "&", " ">> \o pad \o b \o pad
        \o <<")", " ", "|", " ", "(">> \o pad \o c \o pad \o <<")">>

Pads == { <<>>, <<" ">> }

ParseInputs ==
    {Disjunction(a, b, c, pad) : a \in Keywords, b \in Keywords, c \in Keywords,
                                 pad \in Pads}

MaxTokens == 4

\* the pieces a text is made of
Tokens ==
    { <<"a">>, <<"B">>, <<" ">>, <<"(">>, <<")">>, <<"|">>, <<" ", "&", " ">> }

RECURSIVE Concat(_)
Concat(pieces) ==
    IF pieces = <<>> THEN <<>> ELSE Head(pieces) \o Concat(Tail(pieces))

\* every text of at most MaxTokens pieces
Texts == UNION {{Concat(t) : t \in [1..n -> Tokens]} : n \in 0..MaxTokens}

Calls ==
    {[fn |-> "process_reader", lines |-> r, search_terms |-> t, line_filter |-> f] :
        r \in Readers, t \in TermLists, f \in LineFilters}
    \cup {[fn |-> "matches", expr |-> e, text |-> to_lowercase(l)] :
            e \in SomeExpressions, l \in SomeLines}
    \cup {[fn |-> "parse", expr |-> x] : x \in ParseInputs \cup Texts}

FnInit ==
    /\ config \in {c \in Configs : ~c.workers.some}
    /\ progress_callback = FALSE
    /\ disk = <<>>
    /\ fault = "none"
    /\ output_exists = FALSE
    /\ output_file = <<>>
    /\ history = <<>>
    /\ call \in Calls
    /\ ret = NoRet
    /\ RunStart

fn_vars == << config, progress_callback, disk, fault, output_exists, output_file,
             history, rpc, file_paths, next, stream_done, in_progress, result,
             wpc, pos, file_match_count, loaded, runs, output_lock,
             total_match_count, total_lock, processed_files, processed_lock,
             progress_mutex, observed >>

CallProcessReader ==
    /\ call.fn = "process_reader"
    /\ ret = NoRet
    /\ LET r == process_reader(call.lines, call.search_terms, call.line_filter)
       IN  ret' = [state |-> "ret", file_match_count |-> r.file_match_count,
                   written |-> r.written]
    /\ UNCHANGED << call, fn_vars >>

CallMatches ==
    /\ call.fn = "matches"
    /\ ret = NoRet
    /\ ret' = [state |-> "ret", val |-> matches(call.expr, call.text)]
    /\ UNCHANGED << call, fn_vars >>

CallParse ==
    /\ call.fn = "parse"
    /\ ret = NoRet
    /\ ret' = [state |-> "ret", parsed |-> parse(call.expr)]
    /\ UNCHANGED << call, fn_vars >>

FnNext == CallProcessReader \/ CallMatches \/ CallParse

FnSpec == FnInit /\ [][FnNext]_vars

(***************************************************************************)
(* Properties of the run.                                                  *)
(***************************************************************************)
Worklist == 1..Len(file_paths)

RECURSIVE SumOver(_, _)
SumOver(f, S) ==
    IF S = {} THEN 0
    ELSE LET x == CHOOSE y \in S : TRUE
         IN  f[x] + SumOver(f, S \ {x})

\* the matches of worklist file i processed alone: the lines of its reader
\* that decode and match, or 0 when the file does not open
alone_count(i) ==
    LET r == task_reader(i)
    IN  IF ~r.some THEN 0
        ELSE Cardinality({k \in 1..Len(r.val.items) :
                 /\ r.val.items[k].ok
                 /\ is_match(r.val.items[k].line, config.search_terms, line_filter)})

\* tasks spawned and not yet finished
Active == {i \in Tasks : wpc[i] \notin {"none", "finished"}}

\* C1: the total_matches that run_parser returns is the sum, over the files
\* of the worklist, of the match count of each file processed alone.
C1_TotalIsSumOfFiles ==
    rpc = "done" =>
        result.total_matches = SumOver([i \in Worklist |-> alone_count(i)], Worklist)

\* a run with two workers returned, and two files of it had matches
C1_Witness ==
    /\ rpc = "done"
    /\ concurrency >= 2
    /\ Cardinality({i \in Worklist : alone_count(i) > 0}) >= 2
    /\ result.total_matches >= 3

\* C2: the observer is called once per worklist file, the k-th call
\* receives processed = k, and total is the size of the worklist.
C2_ProgressInOrder ==
    progress_callback =>
        /\ \A k \in 1..Len(observed) :
              /\ observed[k].processed = k
              /\ observed[k].total = Len(file_paths)
        /\ \A i \in Tasks :
              Cardinality({k \in 1..Len(observed) : observed[k].task = i})
                  = IF wpc[i] = "finished" THEN 1 ELSE 0
        /\ rpc = "done" => Len(observed) = Len(file_paths)

\* three files were reported with two workers, and not in worklist order
C2_Witness ==
    /\ progress_callback
    /\ rpc = "done"
    /\ concurrency >= 2
    /\ Len(observed) = 3
    /\ observed[1].task # 1

\* C4: when run_parser returns a ScanResult, processed_files is the size of
\* the worklist and every worklist file was processed exactly once.
C4_EveryFileOnce ==
    (rpc = "done" /\ result.state = "ok") =>
        /\ result.processed_files = Len(file_paths)
        /\ \A i \in Tasks :
              /\ runs[i] = IF i \in Worklist THEN 1 ELSE 0
              /\ i \in Worklist => wpc[i] = "finished"

\* a run over three files returned
C4_Witness ==
    /\ rpc = "done"
    /\ result.state = "ok"
    /\ Len(file_paths) = 3
    /\ result.processed_files = 3

\* C5: the files started and not yet completed are never more than the
\* worker count, configured or default.
C5_BoundedPool ==
    Cardinality(Active) <= concurrency

\* the pool is full while a file waits for a slot
C5_Witness ==
    /\ concurrency >= 1
    /\ Cardinality(Active) = concurrency
    /\ next <= Len(file_paths)

\* the positions of the output at which task i wrote the text of a line
LineChunks(i) ==
    {c \in 1..Len(output_file) :
        output_file[c].task = i /\ output_file[c].part = "line"}

\* C6: the matched lines of one file stand in the output in the order they
\* have in the file, whatever stands between them.
C6_FileOrderKept ==
    \A a, b \in 1..Len(output_file) :
        ( /\ a < b
          /\ output_file[a].task = output_file[b].task
          /\ output_file[a].part = "line"
          /\ output_file[b].part = "line" )
        => output_file[a].item < output_file[b].item

\* two lines of one file are in the output with a line of another file between
C6_Witness ==
    \E a, b, c \in 1..Len(output_file) :
        /\ a < c /\ c < b
        /\ output_file[a].part = "line"
        /\ output_file[b].part = "line"
        /\ output_file[c].part = "line"
        /\ output_file[a].task = output_file[b].task
        /\ output_file[c].task # output_file[a].task

\* tasks inside an append: between the lock and the drop of the guard
Appending == {i \in Tasks : wpc[i] \in {"write_line", "write_newline"}}

\* C7: appends exclude each other: at most one task is inside an append,
\* and every line text in the output is followed at once by its own newline.
C7_WholeLines ==
    /\ Cardinality(Appending) <= 1
    /\ \A i \in Appending : output_lock = i
    /\ \A c \in 1..Len(output_file) :
          IF output_file[c].part = "line"
          THEN IF c < Len(output_file)
               THEN output_file[c + 1] =
                        Chunk(output_file[c].task, output_file[c].item, "newline")
               ELSE /\ wpc[output_file[c].task] = "write_newline"
                    /\ pos[output_file[c].task] = output_file[c].item
          ELSE /\ c > 1
               /\ output_file[c - 1] =
                      Chunk(output_file[c].task, output_file[c].item, "line")

\* a task has written the text of a line and not yet its newline, while
\* another task waits for the lock with a line to write
C7_Witness ==
    \E i, j \in Tasks :
        /\ i # j
        /\ wpc[i] = "write_newline"
        /\ wpc[j] = "lock_output"
        /\ Len(output_file) > 0
        /\ output_file[Len(output_file)] = Chunk(i, pos[i], "line")

\* the file of worklist position i
FileOf(i) == Entry(file_paths[i])

\* task i has left the loop over the lines of its file
Scanned(i) ==
    wpc[i] \in {"lock_total", "store_total", "lock_progress", "lock_processed",
                "callback", "finished"}

\* a file that opens, is read by the reader of its encoding, decodes on
\* every line and ends cleanly, and whose appends all succeed
Clean(i) ==
    LET e == FileOf(i)
    IN  /\ e.perm
        /\ e.end = "eof"
        /\ (e.enc = "gz") <=> is_gz_file(e, entry_path(file_paths[i]))
        /\ \A k \in 1..Len(e.items) : e.items[k].ok /\ ~e.items[k].wfail

\* the lines of the content of file i that match
MatchingLines(i) ==
    {k \in 1..Len(FileOf(i).items) :
        is_match(FileOf(i).items[k].line, config.search_terms, line_filter)}

\* the lines of file i whose text task i wrote to the output
WrittenLines(i) == {output_file[c].item : c \in LineChunks(i)}

\* C8: a clean file with N matching lines has a tally of N and N lines in
\* the output, each matching line once and no other line; a gzip file and a
\* plain file of the same content have the same tally and the same lines.
C8_TallyAndLines ==
    /\ \A i \in Worklist :
          (Scanned(i) /\ Clean(i)) =>
              LET m == MatchingLines(i)
                  n == Cardinality(m)
              IN  /\ file_match_count[i] = n
                  /\ Cardinality(LineChunks(i)) = n
                  /\ WrittenLines(i) = m
    /\ \A i, j \in Worklist :
          ( /\ i < j
            /\ Scanned(i) /\ Scanned(j)
            /\ FileOf(i).items = FileOf(j).items
            /\ Clean(i) /\ Clean(j) )
          => /\ file_match_count[i] = file_match_count[j]
             /\ WrittenLines(i) = WrittenLines(j)

\* a gzip file and a plain file of the same content, two matching lines and
\* one other line, have both been scanned
C8_Witness ==
    \E i, j \in Worklist :
        /\ Scanned(i) /\ Clean(i) /\ Scanned(j) /\ Clean(j)
        /\ FileOf(i).enc = "gz"
        /\ FileOf(j).enc = "plain"
        /\ FileOf(i).items = FileOf(j).items
        /\ file_match_count[i] = 2
        /\ Len(FileOf(i).items) = 3

\* worklist files that File::open refuses
Unopenable == {i \in Worklist : ~FileOf(i).perm}

\* C9: a file that does not open counts no match and writes nothing; when
\* the run returns it returned Ok, every worklist file was processed once,
\* the file is counted in processed_files and was reported to the observer.
C9_OpenFailureIsLocal ==
    /\ \A i \in Unopenable :
          /\ file_match_count[i] = 0
          /\ \A c \in 1..Len(output_file) : output_file[c].task # i
    /\ (rpc = "done" /\ Unopenable # {}) =>
          /\ result.state = "ok"
          /\ result.processed_files = Len(file_paths)
          /\ result.total_matches =
                 SumOver([i \in Worklist |-> IF i \in Unopenable THEN 0
                                             ELSE alone_count(i)], Worklist)
          /\ \A i \in Worklist : runs[i] = 1 /\ wpc[i] = "finished"
          /\ progress_callback =>
                \A i \in Unopenable : \E k \in 1..Len(observed) : observed[k].task = i

\* a run returned whose worklist began with a plain file and a gzip file
\* that do not open, and went on to a file with matches
C9_Witness ==
    /\ rpc = "done"
    /\ progress_callback
    /\ \E i, j \in Unopenable, k \in Worklist :
          /\ i < k /\ j < k
          /\ FileOf(i).enc = "plain"
          /\ FileOf(j).enc = "gz"
          /\ file_match_count[k] > 0
    /\ result.total_matches > 0

\* gzip files of the worklist whose stream fails while it is read
StreamError ==
    {i \in Worklist :
        /\ is_gz_file(FileOf(i), entry_path(file_paths[i]))
        /\ task_reader(i).some
        /\ \/ task_reader(i).val.end = "stuck"
           \/ \E k \in 1..Len(task_reader(i).val.items) : ~task_reader(i).val.items[k].ok}

\* C10: a gzip file whose stream fails while it is read counts no match,
\* and when the run returns the file was counted as processed.
C10_StreamErrorCountsZero ==
    /\ \A i \in StreamError : Scanned(i) => file_match_count[i] = 0
    /\ rpc = "done" => result.processed_files = Len(file_paths)

\* C3: a run whose setup succeeded returns, and every task that was
\* spawned finishes its file.
C3_RunCompletes ==
    /\ (rpc = "dispatch") ~> (rpc = "done")
    /\ \A i \in Tasks : (wpc[i] = "spawned") ~> (wpc[i] = "finished")

\* worklist files that open and hold an item that does not decode
WithBadLine ==
    {i \in Worklist :
        /\ task_reader(i).some
        /\ \E k \in 1..Len(task_reader(i).val.items) : ~task_reader(i).val.items[k].ok}

\* the items of file i that decode: the file as if its bad lines were absent
GoodItems(i) == SelectSeq(task_reader(i).val.items, LAMBDA it : it.ok)

\* the lines of file i that decode, match and whose append succeeds
WritableLines(i) ==
    {k \in 1..Len(task_reader(i).val.items) :
        LET it == task_reader(i).val.items[k]
        IN  /\ it.ok
            /\ ~it.wfail
            /\ is_match(it.line, config.search_terms, line_filter)}

\* C11: a line that does not decode is neither counted nor written and does
\* not end the file: the tally and the written lines are those of the file
\* without its bad lines.
C11_BadLineSkipped ==
    \A i \in WithBadLine :
        /\ \A c \in LineChunks(i) : task_reader(i).val.items[output_file[c].item].ok
        /\ Scanned(i) =>
              /\ file_match_count[i] =
                     Cardinality({k \in 1..Len(GoodItems(i)) :
                         is_match(GoodItems(i)[k].line, config.search_terms, line_filter)})
              /\ WrittenLines(i) = WritableLines(i)

\* a file was scanned whose bad line stands before a line that was written
C11_Witness ==
    \E i \in WithBadLine :
        /\ Scanned(i)
        /\ \E c \in LineChunks(i), k \in 1..Len(task_reader(i).val.items) :
              /\ ~task_reader(i).val.items[k].ok
              /\ k < output_file[c].item

\* C12: when a step of the setup fails, run_parser returns the error at
\* once: no file is processed, no task is started and the observer is
\* never called.
C12_SetupFailureStopsRun ==
    failed_step # "none" =>
        /\ rpc \in {"setup", "err"}
        /\ rpc = "err" => result = Err
        /\ file_paths = <<>>
        /\ in_progress = {}
        /\ \A i \in Tasks : wpc[i] = "none" /\ runs[i] = 0
        /\ total_match_count = 0
        /\ processed_files = 0
        /\ observed = <<>>
        /\ output_file = <<>>

\* the listing of a directory with eligible files failed and the run
\* returned its error
C12_Witness ==
    /\ rpc = "err"
    /\ fault = "read_dir"
    /\ progress_callback
    /\ Len(collect_paths(Listing)) >= 2

\* the matched lines of file i whose append to the output fails
FailedWrites(i) ==
    IF ~task_reader(i).some THEN {}
    ELSE {k \in 1..Len(task_reader(i).val.items) :
             LET it == task_reader(i).val.items[k]
             IN  /\ it.ok
                 /\ it.wfail
                 /\ is_match(it.line, config.search_terms, line_filter)}

\* the lines of the output: the positions at which the text of a line stands
OutputLines == {c \in 1..Len(output_file) : output_file[c].part = "line"}

\* C13: a matched line whose append fails is still counted and the lines
\* after it are still processed; when the run returns, the output has at
\* most total_matches lines, and exactly as many when no write failed.
C13_FailedWriteStillCounts ==
    /\ \A i \in Worklist :
          (FailedWrites(i) # {} /\ Scanned(i)) =>
              /\ file_match_count[i] = alone_count(i)
              /\ WrittenLines(i) = WritableLines(i)
    /\ rpc = "done" =>
          /\ Cardinality(OutputLines) <= result.total_matches
          /\ result.total_matches - Cardinality(OutputLines) =
                 SumOver([i \in Worklist |-> Cardinality(FailedWrites(i))], Worklist)

\* a run returned in which a write failed and a later line of the same
\* file was written, so that the output has fewer lines than total_matches
C13_Witness ==
    /\ rpc = "done"
    /\ Cardinality(OutputLines) < result.total_matches
    /\ \E i \in Worklist :
          \E k \in FailedWrites(i), c \in LineChunks(i) : k < output_file[c].item

\* lines that an earlier run wrote
StaleChunks == {c \in 1..Len(output_file) : output_file[c].task = 0}

\* C14 as stated: after any sequence of runs the output holds no line of an
\* earlier run.
C14_NoStaleLineAfterAnyRun ==
    rpc \in {"done", "err"} => StaleChunks = {}

\* C14, amended: once the setup of a run is over, the output holds no line
\* of an earlier run, unless the run returned because the stale output
\* could not be removed.
C14_OutputResetEachRun ==
    (rpc # "setup" /\ ~(rpc = "err" /\ fault = "remove_file")) => StaleChunks = {}

\* a second run returned after a first run that wrote lines, and wrote its own
C14_Witness ==
    /\ rpc = "done"
    /\ Len(history) = 1
    /\ history[1].total_matches > 0
    /\ OutputLines # {}

\* C16: two runs with the same configuration on the same files return the
\* same total_matches and processed_files.
C16_SameTotalsEachRun ==
    rpc = "done" =>
        \A h \in 1..Len(history) :
            history[h].state = "ok" =>
                /\ result.total_matches = history[h].total_matches
                /\ result.processed_files = history[h].processed_files

\* a second run with two workers returned after a first run that returned,
\* over two files with matches
C16_Witness ==
    /\ rpc = "done"
    /\ Len(history) = 1
    /\ history[1].state = "ok"
    /\ concurrency >= 2
    /\ result.processed_files = 2
    /\ result.total_matches >= 3

\* C15: the configured output file is never in the worklist, however the
\* output path and the source directory are written.
C15_OutputNeverInWorklist ==
    \A k \in 1..Len(file_paths) : file_paths[k] # 0

\* no entry of the source directory is eligible
NoEligibleFile ==
    \A k \in 1..Len(Listing) :
        ~is_eligible(Entry(Listing[k]), entry_path(Listing[k]),
                     filename_filter, config.output_log)

\* C17: over a directory with no eligible file no worker runs, the observer
\* is never called and a run that returns returns Ok(0, 0); the percentage
\* is only ever computed with a worklist that is not empty.
C17_EmptyWorklist ==
    /\ NoEligibleFile =>
          /\ \A i \in Tasks : wpc[i] = "none"
          /\ observed = <<>>
          /\ processed_files = 0
          /\ rpc = "done" => result = Ok(0, 0)
    /\ \A i \in Tasks : wpc[i] = "callback" => total_files > 0

\* a run over an empty directory returned
C17_Witness ==
    /\ rpc = "done"
    /\ NoEligibleFile
    /\ result = Ok(0, 0)
    /\ disk = <<>>

(***************************************************************************)
(* Properties of the functions called alone.                               *)
(***************************************************************************)
\* p occurs in s as a run of consecutive characters
Occurs(p, s) ==
    \E i \in 1..(Len(s) + 1) : \E j \in (i - 1)..Len(s) : SubSeq(s, i, j) = p

\* an expression holds of a text: every term of an And occurs in it, some
\* member of an Or holds of it
RECURSIVE Holds(_, _)
Holds(expr, text) ==
    IF expr.tag = "And"
    THEN \A t \in {expr.terms[k] : k \in 1..Len(expr.terms)} : Occurs(t, text)
    ELSE \E e \in {expr.exprs[k] : k \in 1..Len(expr.exprs)} : Holds(e, text)

\* a term is satisfied by a normalized line
Satisfies(l, term) ==
    /\ term.keyword = <<>> \/ Occurs(term.keyword, l)
    /\ ~term.additional_expression.some \/ Holds(term.additional_expression.val, l)

\* the rule of the claim for one line
IsMatchingLine(line, search_terms, filter) ==
    LET l == to_lowercase(line)
    IN  /\ Occurs(filter, l)
        /\ \E k \in 1..Len(search_terms) : Satisfies(l, search_terms[k])

\* C18: a line is a match iff its normalized text contains the line filter
\* and satisfies at least one term (keyword empty or contained, expression
\* absent or true); each matching line is counted and written once, and
\* with no term no line matches.
C18_LineMatchRule ==
    (call.fn = "process_reader" /\ ret.state = "ret") =>
        LET expected ==
                SelectSeq(call.lines,
                          LAMBDA line : IsMatchingLine(line, call.search_terms,
                                                       call.line_filter))
        IN  /\ ret.written = expected
            /\ ret.file_match_count = Len(expected)
            /\ call.search_terms = <<>> => ret.file_match_count = 0

\* a line that satisfies two different terms was counted once
C18_Witness ==
    /\ call.fn = "process_reader"
    /\ ret.state = "ret"
    /\ Len(call.lines) = 1
    /\ Len(call.search_terms) = 2
    /\ call.search_terms[1] # call.search_terms[2]
    /\ call.search_terms[2].additional_expression.some
    /\ call.line_filter # <<>>
    /\ \A k \in 1..2 : Satisfies(to_lowercase(call.lines[1]), call.search_terms[k])
    /\ ret.file_match_count = 1
    /\ ret.written = call.lines

\* the terms of an And in the opposite order
Reversed(expr) ==
    IF expr.tag = "And"
    THEN And([k \in 1..Len(expr.terms) |-> expr.terms[Len(expr.terms) + 1 - k]])
    ELSE expr

\* C19: a call of matches returns true on And(terms) iff every term occurs
\* in the line, whatever the order of the terms, and on Or(exprs) iff some
\* member evaluates to true; the call changes nothing but its result.
C19_EvaluationRule ==
    [][(call.fn = "matches" /\ ret.state = "none" /\ ret'.state = "ret") =>
          /\ ret'.val = Holds(call.expr, call.text)
          /\ ret'.val = matches(Reversed(call.expr), call.text)
          /\ call' = call
          /\ UNCHANGED fn_vars]_vars

\* an And of two different terms was true
C19_Witness ==
    /\ call.fn = "matches"
    /\ ret.state = "ret"
    /\ ret.val
    /\ call.expr.tag = "And"
    /\ Len(call.expr.terms) = 2
    /\ call.expr.terms[1] # call.expr.terms[2]

\* C20: parsing "(a & b) | (c)" with plain keywords gives Or of And [a, b]
\* and And [c], lowercased and trimmed, which is true on a line with a and
\* b, true on a line with c and false on any other line.
C20_ParseDisjunction ==
    (call.fn = "parse" /\ ret.state = "ret") =>
        \A a \in Keywords, b \in Keywords, c \in Keywords, pad \in Pads :
            call.expr = Disjunction(a, b, c, pad) =>
                LET la == to_lowercase(a)
                    lb == to_lowercase(b)
                    lc == to_lowercase(c)
                IN  /\ ret.parsed = Some(Or(<< And(<<la, lb>>), And(<<lc>>) >>))
                    /\ \A l \in SomeLines :
                          LET line == to_lowercase(l)
                          IN  matches(ret.parsed.val, line)
                                  <=> \/ Occurs(la, line) /\ Occurs(lb, line)
                                      \/ Occurs(lc, line)

\* a padded text with uppercase keywords was parsed
C20_Witness ==
    /\ call.fn = "parse"
    /\ ret.state = "ret"
    /\ call.expr = Disjunction(<<"B">>, <<"R", " ", "a">>, <<"e", "r">>, <<" ">>)
    /\ ret.parsed = Some(Or(<< And(<< <<"b">>, <<"r", " ", "a">> >>),
                               And(<< <<"e", "r">> >>) >>))
    /\ matches(ret.parsed.val, <<"b", " ", "e", "r", " ", "a">>)
    /\ ~matches(ret.parsed.val, <<"b", " ", "r", "a">>)

\* every And of an expression holds a non-empty term, every Or a member
RECURSIVE WellFormed(_)
WellFormed(expr) ==
    IF expr.tag = "And"
    THEN \E k \in 1..Len(expr.terms) : expr.terms[k] # <<>>
    ELSE /\ expr.exprs # <<>>
         /\ \A k \in 1..Len(expr.exprs) : WellFormed(expr.exprs[k])

\* C21: every expression that parse returns has a non-empty term in every
\* And and a member in every Or.
C21_ParseInvariant ==
    (call.fn = "parse" /\ ret.state = "ret" /\ ret.parsed.some) =>
        WellFormed(ret.parsed.val)

\* the name starts with "debug" in some letter case
DebugName(name) ==
    /\ Len(name) >= 5
    /\ to_lowercase(SubSeq(name, 1, 5)) = <<"d", "e", "b", "u", "g">>

\* the name ends in the suffix
EndsWith(name, suffix) ==
    /\ Len(name) > Len(suffix)
    /\ SubSeq(name, Len(name) - Len(suffix) + 1, Len(name)) = suffix

InWorklist(id) == \E k \in 1..Len(file_paths) : file_paths[k] = id

\* C22: once the directory is enumerated, no file whose name starts with
\* "debug" in any letter case is in the worklist, and every regular .log
\* file other than the output file whose name does not start with "debug"
\* and whose lowercased name contains the filter is in it.
C22_DebugExcluded ==
    rpc = "dispatch" =>
        \A k \in 1..Len(Listing) :
            LET id == Listing[k]
                name == Entry(id).name
            IN  /\ DebugName(name) => ~InWorklist(id)
                /\ ( /\ id # 0
                     /\ Entry(id).kind = "file"
                     /\ EndsWith(name, <<".", "l", "o", "g">>)
                     /\ ~DebugName(name)
                     /\ Occurs(config.filename_filter, to_lowercase(name)) )
                   => InWorklist(id)

\* a debug .gz file whose path contains the filter was left out
C22_Witness ==
    /\ rpc = "dispatch"
    /\ Len(disk) = 1
    /\ DebugName(Entry(disk[1]).name)
    /\ EndsWith(Entry(disk[1]).name, <<".", "g", "z">>)
    /\ config.filename_filter = <<"d", "e", "b", "u", "g">>
    /\ ~InWorklist(disk[1])

\* the number of c at the start and at the end of s
LeadCount(s, c) ==
    CHOOSE n \in 0..Len(s) :
        /\ \A k \in 1..n : s[k] = c
        /\ (n < Len(s) => s[n + 1] # c)

TrailCount(s, c) ==
    CHOOSE n \in 0..Len(s) :
        /\ \A k \in 1..n : s[Len(s) + 1 - k] = c
        /\ (n < Len(s) => s[Len(s) - n] # c)

DropLead(s, c) == SubSeq(s, LeadCount(s, c) + 1, Len(s))
DropTrail(s, c) == SubSeq(s, 1, Len(s) - TrailCount(s, c))
Trimmed(s) == DropTrail(DropLead(s, " "), " ")

\* s without one layer of enclosing parentheses and the whitespace around it
StripOneLayer(s) ==
    LET t == Trimmed(s)
    IN  IF Len(t) >= 2 /\ t[1] = "(" /\ t[Len(t)] = ")"
        THEN Trimmed(SubSeq(t, 2, Len(t) - 1))
        ELSE t

\* s without its leading '(', then its trailing ')', then the whitespace
StripAll(s) == Trimmed(DropTrail(DropLead(s, "("), ")"))

\* the terms of a conjunction text
TermsOf(x) ==
    LET parts == split(x, <<" ", "&", " ">>)
    IN  [k \in 1..Len(parts) |-> to_lowercase(Trimmed(parts[k]))]

NoBar(x) == \A k \in 1..Len(x) : x[k] # "|"

\* C23 as stated: a text without a disjunction is stripped of one layer of
\* enclosing parentheses and then split into terms.
C23_OneLayerStripped ==
    (call.fn = "parse" /\ ret.state = "ret" /\ call.expr # <<>> /\ NoBar(call.expr)) =>
        ret.parsed = Some(And(TermsOf(StripOneLayer(call.expr))))

\* the parts of a disjunction text that are not empty once stripped
BarParts(x) ==
    LET raw == split(x, <<"|">>)
        stripped == [k \in 1..Len(raw) |-> StripAll(Trimmed(raw[k]))]
    IN  SelectSeq(stripped, LAMBDA part : part # <<>>)

\* C23, amended: each stripping step removes every leading '(', then every
\* trailing ')', then the whitespace around what is left; a text without a
\* disjunction is stripped once, a part of a disjunction twice, and what is
\* left is split into terms.
C23_AllLayersStripped ==
    (call.fn = "parse" /\ ret.state = "ret" /\ call.expr # <<>>) =>
        LET parts == BarParts(call.expr)
        IN  IF NoBar(call.expr) \/ parts = <<>>
            THEN ret.parsed = Some(And(TermsOf(StripAll(call.expr))))
            ELSE ret.parsed =
                     Some(Or([k \in 1..Len(parts) |-> And(TermsOf(StripAll(parts[k])))]))

\* a text with two leading parentheses and one trailing lost all three
C23_Witness ==
    /\ call.fn = "parse"
    /\ ret.state = "ret"
    /\ call.expr = <<"(", "(", "a", ")">>
    /\ ret.parsed = Some(And(<< <<"a">> >>))

\* C24: the expression parse returns is a single And, or an Or whose members
\* are all And expressions, one for each part of the disjunction that
\* parsed, in the order of the parts.
C24_OneLevelOfDisjunction ==
    (call.fn = "parse" /\ ret.state = "ret" /\ ret.parsed.some) =>
        LET e == ret.parsed.val
            parts == BarParts(call.expr)
        IN  \/ e.tag = "And"
            \/ /\ e.tag = "Or"
               /\ \A k \in 1..Len(e.exprs) : e.exprs[k].tag = "And"
               /\ Len(e.exprs) = Len(parts)
               /\ \A k \in 1..Len(parts) : Some(e.exprs[k]) = parse(parts[k])

\* a text of three parts, one of them empty, gave an Or of two And
C24_Witness ==
    /\ call.fn = "parse"
    /\ ret.state = "ret"
    /\ call.expr = <<"B", "|", "|", "a">>
    /\ ret.parsed = Some(Or(<< And(<< <<"b">> >>), And(<< <<"a">> >>) >>))

\* the tasks whose file is counted as processed
Counted == {i \in Tasks : wpc[i] \in {"callback", "finished"}}

\* C25: at every moment, and so whenever the observer is called with
\* processed = k, k files are counted as processed and the match counter
\* holds at least the tallies of those k files; every call of the observer
\* was made by a task whose file is counted.
C25_TallyBeforeProgress ==
    /\ processed_files = Cardinality(Counted)
    /\ total_match_count >= SumOver(file_match_count, Counted)
    /\ \A k \in 1..Len(observed) : observed[k].task \in Counted

\* a task is about to report the second file while another task holds the
\* match counter with a tally that is not added yet
C25_Witness ==
    \E i \in Tasks, j \in Tasks :
        /\ wpc[i] = "callback"
        /\ processed_files = 2
        /\ file_match_count[i] > 0
        /\ wpc[j] = "store_total"
        /\ file_match_count[j] > 0
        /\ total_match_count = SumOver(file_match_count, Counted)

====
